---- MODULE Spec2Model ----
(***************************************************************************)
(* The skybox texture conversion pipeline of bevy_skybox_cubemap:          *)
(* SkyboxTextureConversion (the pending registry), make_array (submit) and *)
(* the convert_skyboxes system (the scheduler pass), together with the     *)
(* Assets<Image> table the system polls.                                   *)
(***************************************************************************)
EXTENDS Integers, Sequences, FiniteSets, TLC

(* ------------------------------ bounds -------------------------------- *)

\* Number of distinct texture handles the callers hold.
NumHandles == 2

\* Total number of make_array calls in a run.
MaxSubmits == 3

\* Widest image the asset server loads.
MaxWidth == 2

(* --------------------------- program constants ------------------------ *)

\* The literal 6 of `texture.reinterpret_stacked_2d_as_array(6)`.
Layers == 6

Handles == 1..NumHandles

(* ------------------------------ textures ------------------------------ *)

\* Option<TextureViewDescriptor> is a sequence of length 0 (None) or 1 (Some).
\* Option<TextureViewDimension> is "None" or the name of the variant.
None == <<>>

Some(x) == <<x>>

\* `default` for TextureViewDescriptor: every field None / 0.
DefaultViewDescriptor == [dimension |-> "None", base_mip_level |-> 0]

\* A view descriptor some other system set on the image before conversion;
\* it differs from the default in a field other than the dimension.
CustomViewDescriptor == [dimension |-> "D2", base_mip_level |-> 1]

\* An Image as the asset server hands it over: a single-layer 2-D texture
\* of the given size, with the given view descriptor.
Image(w, h, view) ==
    [width |-> w, height |-> h, depth_or_array_layers |-> 1,
     dimension |-> "D2", texture_view_descriptor |-> view]

\* Heights of the images of width w the loader may deliver: the stacked
\* layout N x 6N of the crate documentation, a height that 6 does not
\* divide, and a height that 6 divides but that is not 6 * width.
Heights(w) == {Layers * w, Layers * w + 1, 2 * Layers * w}

\* The images a load can resolve to: every width and height above with no
\* view descriptor, and one stacked image that carries a view descriptor.
LoadableImages ==
    UNION {{Image(w, h, None) : h \in Heights(w)} : w \in 1..MaxWidth}
    \cup {Image(1, Layers, Some(CustomViewDescriptor))}

Volume(t) == t.width * t.height * t.depth_or_array_layers

(* ------------------------------- state -------------------------------- *)

VARIABLES
    handles,     \* SkyboxTextureConversion.handles: Vec<Handle<Image>>
    textures,    \* Assets<Image>: a map from the handles present to images
    panicked,    \* TRUE once a system has panicked (the app is gone)
    submitted,   \* history: number of make_array calls per handle
    attempts,    \* history: number of reinterpretation attempts per handle
    lastOp,      \* history: the operation that produced this state
    lookups      \* history: the handles the last pass looked up, in order

vars == <<handles, textures, panicked, submitted, attempts, lastOp, lookups>>

(* ----------------------- bevy Image operations ------------------------ *)

\* Image::reinterpret_size: asserts that the new size has the volume of the
\* old one, then replaces the size. A failed assertion is a panic and leaves
\* the image as it was.
reinterpret_size(t, w, h, d) ==
    IF w * h * d /= Volume(t)
    THEN [panic |-> TRUE, texture |-> t]
    ELSE [panic |-> FALSE,
          texture |-> [t EXCEPT !.width = w, !.height = h,
                                !.depth_or_array_layers = d]]

\* Faulty variant: a reinterpretation that validates nothing and rewrites the size
\* of whatever image it is given.
reinterpret_unchecked(t, layers) ==
    [panic |-> FALSE,
     texture |-> [t EXCEPT !.height = t.height \div layers,
                           !.depth_or_array_layers = layers]]

\* Faulty variant: a reinterpretation that silently returns on an image that is
\* already an array instead of panicking.
reinterpret_guarded(t, layers) ==
    IF t.depth_or_array_layers /= 1
    THEN [panic |-> FALSE, texture |-> t]
    ELSE IF t.dimension /= "D2" \/ t.height % layers /= 0
    THEN [panic |-> TRUE, texture |-> t]
    ELSE reinterpret_size(t, t.width, t.height \div layers, layers)

\* Faulty variant: a reinterpretation that sets the layer count and forgets to
\* divide the height.
reinterpret_keep_height(t, layers) ==
    IF \/ t.dimension /= "D2"
       \/ t.depth_or_array_layers /= 1
       \/ t.height % layers /= 0
    THEN [panic |-> TRUE, texture |-> t]
    ELSE [panic |-> FALSE,
          texture |-> [t EXCEPT !.depth_or_array_layers = layers]]

\* Image::reinterpret_stacked_2d_as_array(layers), called at lib.rs:419.
\* It asserts that the image is 2-D, has a single layer and that `layers`
\* divides its height ("will panic if the texture has already be
\* reinterpreted", lib.rs:391), then keeps the width, divides the height
\* by `layers` and sets the layer count.
reinterpret_stacked_2d_as_array(t, layers) ==
    IF \/ t.dimension /= "D2"
       \/ t.depth_or_array_layers /= 1
       \/ t.height % layers /= 0
    THEN [panic |-> TRUE, texture |-> t]
    ELSE reinterpret_size(t, t.width, t.height \div layers, layers)

\* Faulty variant: the view is set to a plain 2-D array instead of a cube.
set_view_dimension_array(t) ==
    LET view == IF t.texture_view_descriptor = None
                THEN DefaultViewDescriptor
                ELSE t.texture_view_descriptor[1]
    IN  [t EXCEPT !.texture_view_descriptor =
                      Some([view EXCEPT !.dimension = "D2Array"])]

\* Faulty variant: the view descriptor is replaced by a fresh default one with
\* the cube dimension, whatever it held.
set_view_dimension_reset(t) ==
    [t EXCEPT !.texture_view_descriptor =
                  Some([DefaultViewDescriptor EXCEPT !.dimension = "Cube"])]

\* lib.rs:420: texture_view_descriptor.get_or_insert_with(default).dimension
\*   = Some(TextureViewDimension::Cube)
set_view_dimension(t) ==
    LET view == IF t.texture_view_descriptor = None
                THEN DefaultViewDescriptor
                ELSE t.texture_view_descriptor[1]
    IN  [t EXCEPT !.texture_view_descriptor =
                      Some([view EXCEPT !.dimension = "Cube"])]

(* ------------------------------ registry ------------------------------ *)

\* Faulty variant: make_array that drops a handle which is already pending.
make_array_dedup(hs, h) ==
    IF \E i \in 1..Len(hs) : hs[i] = h THEN hs ELSE Append(hs, h)

\* Faulty variant: make_array that enqueues the handle twice.
make_array_twice(hs, h) == Append(Append(hs, h), h)

\* SkyboxTextureConversion::make_array: self.handles.push(handle).
make_array(hs, h) == Append(hs, h)

\* Faulty variant: Vec::swap_remove, which fills the hole with the last entry.
RemoveAtSwap(hs, i) ==
    IF i = Len(hs)
    THEN SubSeq(hs, 1, Len(hs) - 1)
    ELSE [SubSeq(hs, 1, Len(hs) - 1) EXCEPT ![i] = hs[Len(hs)]]

\* Vec::remove(i) with the 1-based index of sequences: the entries after i
\* shift left by one.
RemoveAt(hs, i) == SubSeq(hs, 1, i - 1) \o SubSeq(hs, i + 1, Len(hs))

\* Assets::get_mut(handle) is Some exactly for the handles in the table.
IsLoaded(texs, h) == h \in DOMAIN texs

\* The outcome r of the rest of a pass, with the lookup of handle h
\* (textures.get_mut, lib.rs:407) recorded in front of the later ones.
Looked(h, r) == [r EXCEPT !.lookups = <<h>> \o @]

\* Faulty variant: the loop with an absent texture treated as a dropped one: its
\* entry is removed instead of being left for the next pass.
RECURSIVE ConvertLoopDropAbsent(_, _, _, _)
ConvertLoopDropAbsent(i, hs, texs, att) ==
    IF i > Len(hs)
    THEN [handles |-> hs, textures |-> texs, panicked |-> FALSE, attempts |-> att,
          lookups |-> <<>>]
    ELSE LET handle == hs[i] IN
         IF ~IsLoaded(texs, handle)
         THEN Looked(handle, ConvertLoopDropAbsent(i, RemoveAt(hs, i), texs, att))
         ELSE LET rest == RemoveAt(hs, i)
                  r    == reinterpret_stacked_2d_as_array(texs[handle], Layers)
                  att2 == [att EXCEPT ![handle] = @ + 1]
              IN  IF r.panic
                  THEN [handles |-> rest, textures |-> texs,
                        panicked |-> TRUE, attempts |-> att2,
                        lookups |-> <<handle>>]
                  ELSE Looked(handle, ConvertLoopDropAbsent(i, rest,
                                   [texs EXCEPT ![handle] = set_view_dimension(r.texture)],
                                   att2))

\* Faulty variant: the loop taking every entry of the handle out of the
\* registry when it converts one of them.
RECURSIVE ConvertLoopRetain(_, _, _, _)
ConvertLoopRetain(i, hs, texs, att) ==
    IF i > Len(hs)
    THEN [handles |-> hs, textures |-> texs, panicked |-> FALSE, attempts |-> att,
          lookups |-> <<>>]
    ELSE LET handle == hs[i] IN
         IF ~IsLoaded(texs, handle)
         THEN Looked(handle, ConvertLoopRetain(i + 1, hs, texs, att))
         ELSE LET NotIt(x) == x /= handle
                  rest == SelectSeq(hs, NotIt)
                  r    == reinterpret_stacked_2d_as_array(texs[handle], Layers)
                  att2 == [att EXCEPT ![handle] = @ + 1]
              IN  IF r.panic
                  THEN [handles |-> rest, textures |-> texs,
                        panicked |-> TRUE, attempts |-> att2,
                        lookups |-> <<handle>>]
                  ELSE Looked(handle, ConvertLoopRetain(i, rest,
                                   [texs EXCEPT ![handle] = set_view_dimension(r.texture)],
                                   att2))

\* Faulty variant: the loop resolving the texture after the removal, through
\* the entry that has moved to index i, and doing nothing when there is none.
RECURSIVE ConvertLoopStaleIndex(_, _, _, _)
ConvertLoopStaleIndex(i, hs, texs, att) ==
    IF i > Len(hs)
    THEN [handles |-> hs, textures |-> texs, panicked |-> FALSE, attempts |-> att,
          lookups |-> <<>>]
    ELSE LET handle == hs[i] IN
         IF ~IsLoaded(texs, handle)
         THEN Looked(handle, ConvertLoopStaleIndex(i + 1, hs, texs, att))
         ELSE LET rest == RemoveAt(hs, i)
                  att2 == [att EXCEPT ![handle] = @ + 1]
              IN  IF i > Len(rest) \/ ~IsLoaded(texs, rest[i])
                  THEN Looked(handle, ConvertLoopStaleIndex(i, rest, texs, att2))
                  ELSE LET r == reinterpret_stacked_2d_as_array(texs[rest[i]], Layers)
                       IN  IF r.panic
                           THEN [handles |-> rest, textures |-> texs,
                                 panicked |-> TRUE, attempts |-> att2,
                                 lookups |-> <<handle>>]
                           ELSE Looked(handle, ConvertLoopStaleIndex(i, rest,
                                   [texs EXCEPT ![rest[i]] = set_view_dimension(r.texture)],
                                   att2))

\* The loop of convert_skyboxes from index i on (i is 1-based here, 0-based
\* in the source), on the registry hs and the asset table texs; att counts
\* the reinterpretations attempted per handle. The result is the state the
\* loop ends in: handles.get(i) = None breaks, an absent texture advances i,
\* a present one is removed from the registry first and then reinterpreted
\* and given the cube view, and a panic of the reinterpretation ends the
\* pass where it stands.
RECURSIVE ConvertLoop(_, _, _, _)
ConvertLoop(i, hs, texs, att) ==
    IF i > Len(hs)
    THEN [handles |-> hs, textures |-> texs, panicked |-> FALSE, attempts |-> att,
          lookups |-> <<>>]
    ELSE LET handle == hs[i] IN
         IF ~IsLoaded(texs, handle)
         THEN Looked(handle, ConvertLoop(i + 1, hs, texs, att))
         ELSE LET rest == RemoveAt(hs, i)
                  r    == reinterpret_stacked_2d_as_array(texs[handle], Layers)
                  att2 == [att EXCEPT ![handle] = @ + 1]
              IN  IF r.panic
                  THEN [handles |-> rest, textures |-> texs,
                        panicked |-> TRUE, attempts |-> att2,
                        lookups |-> <<handle>>]
                  ELSE Looked(handle, ConvertLoop(i, rest,
                                   [texs EXCEPT ![handle] = set_view_dimension(r.texture)],
                                   att2))

\* Faulty variant: a pass that clears the registry when it is done, dropping
\* the entries it left for a later pass.
convert_skyboxes_clear(hs, texs, att) ==
    [ConvertLoop(1, hs, texs, att) EXCEPT !.handles = <<>>]

\* One run of the convert_skyboxes system: `let mut i = 0; loop { ... }`.
convert_skyboxes(hs, texs, att) == ConvertLoop(1, hs, texs, att)

(* ------------------------------ actions ------------------------------- *)

\* SkyboxPlugin::build: init_resource::<SkyboxTextureConversion>() is the
\* empty Vec; no image is loaded yet.
Init ==
    /\ handles = <<>>
    /\ textures = <<>>
    /\ panicked = FALSE
    /\ submitted = [h \in Handles |-> 0]
    /\ attempts = [h \in Handles |-> 0]
    /\ lastOp = "init"
    /\ lookups = <<>>

\* The number of make_array calls so far.
RECURSIVE SumTo(_, _)
SumTo(f, n) == IF n = 0 THEN 0 ELSE f[n] + SumTo(f, n - 1)

TotalSubmitted == SumTo(submitted, NumHandles)

\* A caller (the example's setup system) calls make_array(handle).
MakeArray(h) ==
    /\ ~panicked
    /\ TotalSubmitted < MaxSubmits
    /\ handles' = make_array(handles, h)
    /\ submitted' = [submitted EXCEPT ![h] = @ + 1]
    /\ lastOp' = "make_array"
    /\ lookups' = <<>>
    /\ UNCHANGED <<textures, panicked, attempts>>

\* The host's update loop runs the convert_skyboxes system once
\* (SkyboxPlugin::build: add_system(convert_skyboxes)). The system holds
\* ResMut of both resources, so the whole pass is one step.
ConvertSkyboxes ==
    /\ ~panicked
    /\ LET r == convert_skyboxes(handles, textures, attempts) IN
        /\ handles' = r.handles
        /\ textures' = r.textures
        /\ panicked' = r.panicked
        /\ attempts' = r.attempts
        /\ lookups' = r.lookups
    /\ lastOp' = "convert_skyboxes"
    /\ UNCHANGED submitted

\* The asset server finishes loading the image behind handle h
\* (asset_server.load, examples/simple.rs:61), at a time of its own choosing.
Load(h, t) ==
    /\ ~panicked
    /\ ~IsLoaded(textures, h)
    /\ textures' = (h :> t) @@ textures
    /\ lastOp' = "load"
    /\ lookups' = <<>>
    /\ UNCHANGED <<handles, panicked, submitted, attempts>>

\* The image behind handle h is removed from Assets<Image>.
Evict(h) ==
    /\ ~panicked
    /\ IsLoaded(textures, h)
    /\ textures' = [x \in DOMAIN textures \ {h} |-> textures[x]]
    /\ lastOp' = "evict"
    /\ lookups' = <<>>
    /\ UNCHANGED <<handles, panicked, submitted, attempts>>

Next ==
    \/ \E h \in Handles : MakeArray(h)
    \/ ConvertSkyboxes
    \/ \E h \in Handles : \E t \in LoadableImages : Load(h, t)
    \/ \E h \in Handles : Evict(h)

Spec == Init /\ [][Next]_vars

\* The update loop runs every system it was given on every frame
\* (add_system(convert_skyboxes)): a pass that can run does run.
FairSpec == Spec /\ WF_vars(ConvertSkyboxes)

(* ------------------------- vocabulary of the claims ------------------- *)

\* Number of entries of the registry hs that hold handle h.
Occurrences(hs, h) == Cardinality({i \in 1..Len(hs) : hs[i] = h})

\* Handle h has a pending entry.
Pending(h) == Occurrences(handles, h) > 0

\* Handle h resolves to a present texture (a "ready" entry, if pending).
Ready(h) == IsLoaded(textures, h)

NotReady(h) == ~Ready(h)

\* The vertically stacked layout the crate documents: a single-layer 2-D
\* image, N wide and 6*N high.
IsStacked(t) ==
    /\ t.dimension = "D2"
    /\ t.depth_or_array_layers = 1
    /\ t.height = Layers * t.width

\* The view the conversion gives a texture: the six layers seen as the faces
\* of a cube, TextureViewDimension::Cube.
HasCubeView(t) ==
    /\ t.texture_view_descriptor /= None
    /\ t.texture_view_descriptor[1].dimension = "Cube"

\* The outcome of a conversion: six layers, viewed as a cube.
IsConverted(t) == t.depth_or_array_layers = Layers /\ HasCubeView(t)

\* The step is a run of the convert_skyboxes system.
PassStep == lastOp' = "convert_skyboxes"

\* The step is a call of make_array.
SubmitStep == lastOp' = "make_array"

(* ------------------------------- claims ------------------------------- *)

\* C1: one pass removes and converts exactly the entries whose texture is
\* present and leaves exactly the other entries pending, whatever the
\* positions of the ready entries.
C1_NoStarvation ==
    [][PassStep =>
        /\ handles' = SelectSeq(handles, NotReady)
        /\ \A h \in Handles : Pending(h) /\ Ready(h) => IsConverted(textures'[h])]_vars

\* C2: at the first pass that runs while a pending handle resolves to a
\* present texture, its entry is removed and its texture converted in that
\* very pass.
C2_SameTick ==
    [][PassStep =>
        \A h \in Handles :
            Pending(h) /\ Ready(h) =>
                /\ Occurrences(handles', h) = 0
                /\ IsConverted(textures'[h])]_vars

\* C3: with the stacked image H submitted before its load completes, a pass
\* run while H is absent leaves the registry (length 1) and every texture
\* unchanged; the pass after the load completes leaves the registry empty
\* and H's texture with six layers and the cube view.
C3_SubmitBeforeLoad ==
    [][PassStep /\ Len(handles) = 1 =>
        LET H == handles[1] IN
        /\ NotReady(H) =>
              /\ handles' = handles
              /\ Len(handles') = 1
              /\ textures' = textures
              /\ ~panicked'
        /\ Ready(H) /\ IsStacked(textures[H]) =>
              /\ Len(handles') = 0
              /\ textures'[H].depth_or_array_layers = 6
              /\ HasCubeView(textures'[H])
              /\ ~panicked']_vars

\* C3 witness: the only handle ever submitted was converted by the last
\* pass and the registry is empty.
C3_Witness ==
    /\ lastOp = "convert_skyboxes"
    /\ handles = <<>>
    /\ ~panicked
    /\ TotalSubmitted = 1
    /\ \E h \in Handles :
          /\ submitted[h] = 1
          /\ attempts[h] = 1
          /\ Ready(h)
          /\ IsConverted(textures[h])

\* C4: a conversion attempt on a texture that was already converted leaves
\* its width, height, layer count and view descriptor as they were.
C4_Idempotence ==
    [][PassStep =>
        \A h \in Handles :
            Ready(h) /\ IsConverted(textures[h]) => textures'[h] = textures[h]]_vars

\* C4 witness: one handle was submitted twice, both entries were tried on
\* the same texture, the second attempt was refused (by a panic) and the
\* texture is in its converted layout.
C4_Witness ==
    /\ lastOp = "convert_skyboxes"
    /\ panicked
    /\ TotalSubmitted = 2
    /\ \E h \in Handles :
          /\ submitted[h] = 2
          /\ attempts[h] = 2
          /\ Ready(h)
          /\ IsConverted(textures[h])

\* C5: a pass never panics, and an entry that cannot be converted does not
\* keep the pass from processing the other entries: after the pass no
\* pending entry resolves to a present texture.
C5_FailuresLocal ==
    [][PassStep =>
        /\ ~panicked'
        /\ \A h \in Handles : Ready(h) => Occurrences(handles', h) = 0]_vars

\* C6: the program panics when a handle is submitted with make_array for a
\* texture that has already been reinterpreted as an array: the pass that
\* finds such an entry with its texture present ends in a panic.
C6_PanicsOnReconversion ==
    [][PassStep =>
        ((\E h \in Handles :
              Pending(h) /\ Ready(h) /\ textures[h].depth_or_array_layers /= 1)
          => panicked')]_vars

\* C6 witness: a handle was submitted again after a pass had converted its
\* texture, and the next pass panicked on it.
C6_Witness ==
    /\ panicked
    /\ handles = <<>>
    /\ \E h \in Handles :
          /\ TotalSubmitted = submitted[h]
          /\ attempts[h] = submitted[h]
          /\ attempts[h] >= 2
          /\ Ready(h)
          /\ textures[h].depth_or_array_layers = Layers

\* C7: an entry whose texture is absent when a pass runs stays in the
\* registry; a pass over a registry whose entries are all absent leaves the
\* registry and every texture unchanged and does not panic.
C7_AbsentStaysPending ==
    [][PassStep =>
        /\ \A h \in Handles :
              NotReady(h) => Occurrences(handles', h) = Occurrences(handles, h)
        /\ (\A i \in 1..Len(handles) : NotReady(handles[i])) =>
              /\ handles' = handles
              /\ textures' = textures
              /\ attempts' = attempts
              /\ ~panicked']_vars

\* C7 witness: a pass has just run over a non-empty registry none of whose
\* entries resolves to a texture.
C7_Witness ==
    /\ lastOp = "convert_skyboxes"
    /\ ~panicked
    /\ Len(handles) >= 1
    /\ \A i \in 1..Len(handles) : NotReady(handles[i])

\* C8: a texture of width W and height 6*W that a pass converts ends with 6
\* layers of width W and height W, and width * height * layers is what it
\* was before.
C8_Dimensions ==
    [][PassStep =>
        \A h \in Handles :
            Pending(h) /\ Ready(h) /\ IsStacked(textures[h])
                /\ attempts'[h] > attempts[h] =>
                    /\ textures'[h].depth_or_array_layers = 6
                    /\ textures'[h].width = textures[h].width
                    /\ textures'[h].height = textures[h].width
                    /\ Volume(textures'[h]) = textures[h].width * textures[h].height]_vars

\* C8 witness: the last pass left a texture of six square layers.
C8_Witness ==
    /\ lastOp = "convert_skyboxes"
    /\ \E h \in Handles :
          /\ Ready(h)
          /\ attempts[h] = 1
          /\ textures[h].depth_or_array_layers = 6
          /\ textures[h].width = textures[h].height

\* C9: make_array succeeds for every handle in every load state of its
\* texture; it appends the handle at the end of the registry, which grows by
\* exactly one, with no deduplication and the earlier entries in place.
C9_Submit ==
    [][SubmitStep =>
        /\ Len(handles') = Len(handles) + 1
        /\ SubSeq(handles', 1, Len(handles)) = handles
        /\ submitted'[handles'[Len(handles')]] = submitted[handles'[Len(handles')]] + 1
        /\ \A h \in Handles \ {handles'[Len(handles')]} : submitted'[h] = submitted[h]
        /\ ~panicked']_vars

\* C9 witness: make_array has just accepted a handle that was already
\* pending and whose texture is already converted.
C9_Witness ==
    /\ lastOp = "make_array"
    /\ ~panicked
    /\ \E h \in Handles :
          /\ handles[Len(handles)] = h
          /\ Occurrences(handles, h) >= 2
          /\ Ready(h)
          /\ IsConverted(textures[h])

\* C10 as stated: in every reachable state a handle appears at most once in
\* the pending registry.
C10_AtMostOnce == \A h \in Handles : Occurrences(handles, h) <= 1

\* C10 as amended: a handle appears in the pending registry at most as often
\* as make_array was called with it, so at most once as long as it was
\* submitted once.
C10_AtMostSubmitted == \A h \in Handles : Occurrences(handles, h) <= submitted[h]

\* C10 witness: a handle submitted twice is pending twice.
C10_Witness ==
    \E h \in Handles : submitted[h] = 2 /\ Occurrences(handles, h) = 2

\* C11 as stated: once a handle's texture has been converted, the handle
\* never re-enters the registry: a converted handle with no pending entry
\* has none in the next state either.
C11_NeverReenters ==
    [][\A h \in Handles :
          Ready(h) /\ IsConverted(textures[h]) /\ ~Pending(h)
              => Occurrences(handles', h) = 0]_vars

\* C11 as amended: a handle, converted or not, enters the registry only by
\* a call of make_array with it, one entry per call; no pass, load or
\* eviction puts a handle into the registry.
C11_EntersOnlyBySubmit ==
    [][\A h \in Handles :
          Occurrences(handles', h) > Occurrences(handles, h) =>
              /\ SubmitStep
              /\ handles' = Append(handles, h)
              /\ submitted'[h] = submitted[h] + 1]_vars

\* C11 witness: a handle whose texture a pass has converted is pending
\* again, after a second make_array.
C11_Witness ==
    /\ lastOp = "make_array"
    /\ TotalSubmitted = 2
    /\ \E h \in Handles :
          /\ submitted[h] = 2
          /\ attempts[h] = 1
          /\ handles = <<h>>
          /\ Ready(h)
          /\ IsConverted(textures[h])

\* C12: a handle submitted twice has two entries of its own, and each entry
\* is taken out of the registry once and for one conversion attempt: in a
\* pass the entries of a handle that leave the registry are as many as the
\* attempts made on its texture, and over the run the entries still pending
\* and the attempts made add up to the calls of make_array with the handle.
C12_EachEntryOnce ==
    [][/\ \A h \in Handles :
              submitted'[h] = Occurrences(handles', h) + attempts'[h]
       /\ PassStep =>
              \A h \in Handles :
                  /\ attempts'[h] >= attempts[h]
                  /\ attempts'[h] - attempts[h]
                        = Occurrences(handles, h) - Occurrences(handles', h)
                  /\ (Occurrences(handles, h) = 2 /\ Ready(h)
                        /\ IsStacked(textures[h]) /\ Occurrences(handles', h) = 0)
                        => attempts'[h] = attempts[h] + 2]_vars

\* C12 witness: one handle was submitted twice, the registry is empty after
\* a pass and two attempts were made on the handle's texture.
C12_Witness ==
    /\ lastOp = "convert_skyboxes"
    /\ handles = <<>>
    /\ \E h \in Handles :
          /\ submitted[h] = 2
          /\ attempts[h] = 2
          /\ Ready(h)

\* C13: in every reachable state the number of make_array calls so far is
\* the registry length plus the number of conversion attempts so far: an
\* entry leaves the registry only with the attempt on its texture.
C13_EntriesAccounted ==
    TotalSubmitted = Len(handles) + SumTo(attempts, NumHandles)

\* C13 witness: of three submitted entries some are still pending and some
\* were taken by a pass.
C13_Witness ==
    /\ TotalSubmitted = 3
    /\ Len(handles) >= 1
    /\ SumTo(attempts, NumHandles) >= 1

\* C14: every pass ends, and it looks up every entry that is in the registry
\* when it starts exactly once, none skipped and none twice: a pass over the
\* empty registry changes nothing, and the handles a pass looks up are the
\* entries it started with.
C14_EveryEntryLookedUpOnce ==
    [][PassStep =>
        /\ Len(lookups') = Len(handles)
        /\ \A h \in Handles :
              Occurrences(lookups', h) = Occurrences(handles, h)
        /\ (handles = <<>> => handles' = <<>> /\ textures' = textures)]_vars

\* C15: with the pass scheduled fairly, a handle that is pending and whose
\* texture is present from some point on is eventually out of the registry
\* with its texture converted, and if every pending handle stays loaded the
\* registry eventually is and stays empty of it.
C15_EventuallyConverted ==
    \A h \in Handles :
        (<>[]Ready(h)) =>
            (Pending(h) ~> (~Pending(h) /\ Ready(h) /\ IsConverted(textures[h])))

\* C16: a pass changes only textures of entries it takes out of the
\* registry and leaves the entries of absent textures where they are;
\* make_array leaves the asset table as it is; a load or an eviction leaves
\* the registry as it is, so that the registry changes only in make_array
\* and in a pass.
C16_Frame ==
    [][/\ PassStep =>
              /\ DOMAIN textures' = DOMAIN textures
              /\ \A h \in DOMAIN textures :
                    textures'[h] /= textures[h] =>
                        /\ Pending(h)
                        /\ Occurrences(handles', h) < Occurrences(handles, h)
              /\ SelectSeq(handles', NotReady) = SelectSeq(handles, NotReady)
       /\ SubmitStep => textures' = textures
       /\ lastOp' \in {"load", "evict"} => handles' = handles
       /\ handles' /= handles => PassStep \/ SubmitStep]_vars

\* C16 witness: a pass has converted the texture of one handle and left
\* alone the present, unconverted texture of a handle that was never
\* submitted.
C16_Witness ==
    /\ lastOp = "convert_skyboxes"
    /\ ~panicked
    /\ \E h1, h2 \in Handles :
          /\ h1 /= h2
          /\ Ready(h1) /\ IsConverted(textures[h1]) /\ ~Pending(h1)
          /\ attempts[h1] = 1
          /\ attempts[h2] = 0
          /\ submitted[h2] = 0
          /\ Ready(h2) /\ IsStacked(textures[h2])

\* a is b with some of its entries taken out, the others in b's order.
RECURSIVE IsSubsequence(_, _)
IsSubsequence(a, b) ==
    \/ a = <<>>
    \/ /\ b /= <<>>
       /\ IF Head(a) = Head(b)
          THEN IsSubsequence(Tail(a), Tail(b))
          ELSE IsSubsequence(a, Tail(b))

C18_BothOrNeither ==
    [][/\ \A h \in DOMAIN textures' :
              textures'[h].depth_or_array_layers = Layers <=> HasCubeView(textures'[h])
       /\ PassStep =>
              \A h \in DOMAIN textures :
                  textures'[h].depth_or_array_layers /= textures[h].depth_or_array_layers =>
                      IF textures[h].texture_view_descriptor = None
                      THEN textures'[h].texture_view_descriptor
                              = Some([dimension |-> "Cube", base_mip_level |-> 0])
                      ELSE /\ HasCubeView(textures'[h])
                           /\ textures'[h].texture_view_descriptor[1].base_mip_level
                                = textures[h].texture_view_descriptor[1].base_mip_level]_vars

\* C18 witness: a pass has converted a texture that came with a view
\* descriptor of its own; it has six layers, the cube view and the
\* descriptor's other field as loaded.
C18_Witness ==
    /\ lastOp = "convert_skyboxes"
    /\ \E h \in Handles :
          /\ Ready(h)
          /\ textures[h].depth_or_array_layers = Layers
          /\ textures[h].texture_view_descriptor
                = Some([CustomViewDescriptor EXCEPT !.dimension = "Cube"])

\* C19: a pass runs alone on the registry and the asset table: within it no
\* handle is submitted and no texture appears or disappears, every entry it
\* looks up is taken out exactly if its texture was present when the pass
\* began, and the textures it changes are those of the entries it takes out.
C19_PassAlone ==
    [][PassStep =>
        /\ submitted' = submitted
        /\ DOMAIN textures' = DOMAIN textures
        /\ Len(handles) - Len(handles')
              = Cardinality({i \in 1..Len(lookups') : Ready(lookups'[i])})
        /\ \A h \in DOMAIN textures :
              /\ textures'[h] /= textures[h] =>
                    Occurrences(handles', h) < Occurrences(handles, h)
              /\ (Occurrences(handles', h) < Occurrences(handles, h) /\ ~panicked') =>
                    textures'[h] /= textures[h]]_vars

\* C19 witness: one pass over two ready entries of different handles has
\* taken both out and converted both textures.
C19_Witness ==
    /\ lastOp = "convert_skyboxes"
    /\ ~panicked
    /\ handles = <<>>
    /\ Len(lookups) = 2
    /\ lookups[1] /= lookups[2]
    /\ \A h \in {lookups[1], lookups[2]} : Ready(h) /\ IsConverted(textures[h])

====
